---- MODULE Spec2Model ----
(***************************************************************************)
(* leagueofmatchups: the matchup advice server.                            *)
(*                                                                         *)
(* The repository holds three builds of MatchupHandler:                    *)
(*   "chan"  - fan-in over resultChan/errorChan       (unnamed/part_001)   *)
(*   "wgctx" - WaitGroup + mutex in a collector goroutine, outer select    *)
(*             on resultChan / ctx.Done               (unnamed/part_002)   *)
(*   "wg"    - WaitGroup + mutex, handler waits itself (unnamed/part_003)  *)
(* The build in use is fixed in Init.  Strings are sequences of            *)
(* one-character strings, so concatenation is \o and strings.Contains is   *)
(* a search for a contiguous subsequence.                                  *)
(***************************************************************************)
EXTENDS Integers, Sequences, FiniteSets, TLC

VARIABLES
    variant,    \* which build of MatchupHandler runs
    rdbInit,    \* rdb != nil
    crashed,    \* the process has exited (log.Fatalf)
    concurrent, \* requests may overlap (the HTTP server runs one goroutine each)
    cache,      \* the redis store: key -> value, for the keys that are present
    pc,         \* pc[r]: where request r's handler goroutine is
    q,          \* q[r]: the champ, opp and role parameters of request r
    key,        \* key[r]: the cache key the handler built, <<>> before that
    ctxErr,     \* ctxErr[r]: ctx.Err() of the request context, "nil" while it runs
    getRes,     \* getRes[r]: advice, err of rdb.Get(ctx, key).Result()
    searchRes,  \* searchRes[r]: err of search.Search(q) and what led to it
    nItems,     \* nItems[r]: len(searchResults.Items)
    wpc,        \* wpc[r][i]: where the worker goroutine of item i is
    outcome,    \* outcome[r][i]: what Scrape/Summarize returned for item i
    mu,         \* mu[r]: the worker holding the mutex, 0 when free
    cpc,        \* cpc[r]: where the collector goroutine of the wgctx build is
    buf,        \* buf[r]: finalAdvice / buffer
    errs,       \* errs[r]: the errors slice (wg builds), the logged errors (chan)
    got,        \* got[r]: the fan-in loop counter i of the chan build
    resp,       \* resp[r]: the responses written for request r, in order
    calls,      \* calls[r]: the collaborator calls made for request r
    setLog,     \* setLog[r]: the rdb.Set calls of request r, in order
    recvd,      \* recvd[r]: the items whose summary went into buf[r], in order
    post,       \* the Post handed to formatPostContent
    formatted,  \* what formatPostContent returned: the entries written, err
    open,       \* open[box]: the popover of the Combobox box is open
    value,      \* value[box]: the value the Combobox box shows as selected
    home,       \* champion, opponent, role of the Home page
    alerted,    \* the text of the last alert() of the Home page, <<>> before
    location,   \* the route shown and the state navigate() passed to it
    results,    \* data, loading, error of the Results page and what it renders
    searchItem, \* the SearchItem handed to scrape.Scrape
    scraped,    \* what the head of Scrape got from getPostInfo
    items,      \* the items handed to filterSearchResults
    filteredItems \* what filterSearchResults returned, and whether it was called

vars == << variant, rdbInit, crashed, concurrent, cache, pc, q, key, ctxErr,
           getRes, searchRes, nItems, wpc, outcome, mu, cpc, buf, errs, got, resp, calls,
           setLog, recvd, post, formatted, open, value, home, alerted, location,
           results, searchItem, scraped, items, filteredItems >>

(***************************************************************************)
(* Bounds of the model.                                                    *)
(***************************************************************************)
MaxReq == 2
MaxItems == 2
MaxKeyLen == 2
MaxConcItems == 1
MaxComments == 6
MaxReplies == 3
MaxScore == 2
MaxSegments == 6
MaxFilterItems == 3

Req == 1..MaxReq
Item == 1..MaxItems

(***************************************************************************)
(* Program constants.                                                      *)
(***************************************************************************)
StatusOK == 200
StatusPartialContent == 206
StatusBadRequest == 400
StatusRequestTimeout == 408
StatusInternalServerError == 500
TTLSeconds == 2592000
TopComments == 5
TopReplies == 2

Placeholder == <<
    "W", "e", " ", "a", "r", "e", "n", "'", "t", " ", "c", "o", "n", "f",
    "i", "d", "e", "n", "t", " ", "a", "b", "o", "u", "t", " ", "t", "h",
    "e", " ", "a", "v", "a", "i", "l", "a", "b", "i", "l", "i", "t", "y",
    " ", "o", "f", " ", "a", "d", "v", "i", "c", "e", " ", "o", "n", " ",
    "R", "e", "d", "d", "i", "t", " ", "f", "o", "r", " ", "t", "h", "i",
    "s", " ", "m", "a", "t", "c", "h", "u", "p", " ", ":", "(" >>

\* the sentinel the handlers of the wg builds look for, and the one the
\* summarizer's prompt asks for in its "Important" list
SentinelHyphen == <<
    "I", "N", "V", "A", "L", "I", "D", "-", "I", "N", "P", "U", "T" >>

\* the sentinel the chan build looks for, and the one the last line of the
\* summarizer's prompt asks for
SentinelUnderscore == <<
    "I", "N", "V", "A", "L", "I", "D", "_", "I", "N", "P", "U", "T" >>

BlankLine == << "\n", "\n" >>

\* strings.Contains(s, sub)
Contains(s, sub) ==
    \E i \in 0..(Len(s) - Len(sub)) : SubSeq(s, i + 1, i + Len(sub)) = sub

(***************************************************************************)
(* Inputs the environment chooses.                                         *)
(***************************************************************************)
\* values of the champ, opp and role URL parameters; <<>> is a missing one
Champs == { <<>>, << "a" >> }
Opps == { << "b" >> }
Roles == { << "t" >> }

Letters == << "a", "b", "c", "d", "e", "f" >>

\* the summary the model writes for item i when the post is relevant
Artifact(i) == << Letters[i] >>

\* what summarize.Summarize can return as text for item i
SummaryTexts(i) == { Artifact(i), SentinelHyphen, SentinelUnderscore }

\* the artifacts of the items of order, each followed by a blank line
RECURSIVE Joined(_)
Joined(order) ==
    IF order = <<>> THEN <<>>
    ELSE (Artifact(Head(order)) \o BlankLine) \o Joined(Tail(order))

\* the texts made of the artifacts of the items in S, in any order
AdviceTexts(S) ==
    { Joined(o) : o \in { f \in [1..Cardinality(S) -> S] :
                            \A a, b \in 1..Cardinality(S) : f[a] = f[b] => a = b } }

\* key := q.Champion + "v" + q.Opponent + "@" + q.Role
Key(query) ==
    query.Champion \o << "v" >> \o query.Opponent \o << "@" >> \o query.Role

NoQuery == [Champion |-> <<>>, Opponent |-> <<>>, Role |-> <<>>]
NoOutcome == [kind |-> "none", text |-> <<>>]
NoCalls ==
    [get |-> 0, search |-> 0, scrape |-> [i \in Item |-> 0],
     summarize |-> [i \in Item |-> 0]]

NoGet == [err |-> "unset", advice |-> <<>>]

NoSearch == [err |-> "unset", cause |-> "none"]

NoPost == [id |-> <<>>, Permalink |-> <<>>, Score |-> 0, Comments |-> <<>>]

\* the three Comboboxes of the Home page, by the state they set
Box == { "champion", "opponent", "role" }

\* the Results page before its effect ran
NoResults ==
    [data |-> <<>>, loading |-> TRUE, error |-> "null", view |-> "loading",
     points |-> <<>>]

NoItem == [Title |-> 0, Link |-> <<>>]
NotFiltered == [called |-> FALSE, Items |-> <<>>]
NotScraped == [postID |-> <<>>, subreddit |-> <<>>, err |-> "unset"]

NotFormatted ==
    [entries |-> <<>>, err |-> "unset", topComments |-> {}, topReplies |-> {}]

\* <-ctx.Done() is ready
CtxDone(r) == ctxErr[r] # "nil"

AllWorkersDone(r) == \A i \in 1..nItems[r] : wpc[r][i] = "done"

(***************************************************************************)
(* The state after init(): the build, whether initRedis succeeded, an      *)
(* empty store, no request yet.                                            *)
(***************************************************************************)
InitCommon ==
    /\ variant \in { "chan", "wgctx", "wg" }
    /\ rdbInit \in BOOLEAN
    /\ crashed = FALSE
    /\ cache = << >>
    /\ pc = [r \in Req |-> "idle"]
    /\ key = [r \in Req |-> <<>>]
    /\ ctxErr = [r \in Req |-> "nil"]
    /\ getRes = [r \in Req |-> NoGet]
    /\ searchRes = [r \in Req |-> NoSearch]
    /\ nItems = [r \in Req |-> 0]
    /\ wpc = [r \in Req |-> [i \in Item |-> "none"]]
    /\ outcome = [r \in Req |-> [i \in Item |-> NoOutcome]]
    /\ mu = [r \in Req |-> 0]
    /\ cpc = [r \in Req |-> "none"]
    /\ buf = [r \in Req |-> <<>>]
    /\ errs = [r \in Req |-> <<>>]
    /\ got = [r \in Req |-> 0]
    /\ resp = [r \in Req |-> <<>>]
    /\ calls = [r \in Req |-> NoCalls]
    /\ setLog = [r \in Req |-> <<>>]
    /\ recvd = [r \in Req |-> <<>>]
    /\ open = [box \in Box |-> FALSE]
    /\ value = [box \in Box |-> ""]
    /\ home = [box \in Box |-> ""]
    /\ alerted = <<>>
    /\ location = [pathname |-> "/", state |-> [box \in Box |-> ""]]
    /\ results = NoResults
    /\ scraped = NotScraped
    /\ filteredItems = NotFiltered

Init ==
    /\ InitCommon
    /\ post = NoPost
    /\ formatted = NotFormatted
    /\ searchItem = NoItem
    /\ items = <<>>
    /\ q = [r \in Req |-> NoQuery]
    /\ concurrent = FALSE

(***************************************************************************)
(* Helpers shared by the handler's steps.                                  *)
(***************************************************************************)
AdviceReply(code, text) ==
    [code |-> code, kind |-> "advice", advice |-> text, errors |-> <<>>,
     error |-> ""]

ErrorReply(code, msg) ==
    [code |-> code, kind |-> "error", advice |-> <<>>, errors |-> <<>>,
     error |-> msg]

PartialReply(text, errors) ==
    [code |-> StatusPartialContent, kind |-> "partial", advice |-> text,
     errors |-> errors, error |-> ""]

\* StoreAfterSet with a store that keeps the entry a key already has
StoreAfterSetKeepsFirst(store, name, val, ok) ==
    IF ok /\ name \notin DOMAIN store
    THEN [k \in (DOMAIN store) \cup {name} |-> IF k = name THEN val ELSE store[k]]
    ELSE store

\* StoreAfterSet with a store that drops its other entries on a write
StoreAfterSetFlushes(store, name, val, ok) ==
    IF ok THEN [k \in {name} |-> val] ELSE store

\* the store after rdb.Set(ctx, key, val, ttl): unchanged when the call fails
StoreAfterSet(store, name, val, ok) ==
    IF ok
    THEN [k \in (DOMAIN store) \cup {name} |-> IF k = name THEN val ELSE store[k]]
    ELSE store

SetCall(name, val, ok) ==
    [key |-> name, value |-> val, ttl |-> TTLSeconds, ok |-> ok]

\* the handler returns: jsonResponse once, then the deferred cancel() of the
\* builds that derive a context per request
Return(r, reply) ==
    /\ resp' = [resp EXCEPT ![r] = Append(@, reply)]
    /\ pc' = [pc EXCEPT ![r] = "done"]
    /\ ctxErr' = [ctxErr EXCEPT ![r] =
                    IF variant # "wg" /\ @ = "nil" THEN "Canceled" ELSE @]

\* rdb.Get and rdb.Set are called with the request context: a call on a
\* finished context returns ctx.Err() and leaves the store alone; on a live
\* context the store may still fail
GetFailures(r) == IF CtxDone(r) THEN { TRUE } ELSE BOOLEAN

SetResults(r) == IF CtxDone(r) THEN { FALSE } ELSE BOOLEAN

(***************************************************************************)
(* MatchupHandler, up to the cache lookup.                                 *)
(***************************************************************************)
\* no goroutine of request r can take a step any more: the handler has
\* returned (or has not started), every worker has returned or is blocked in
\* a channel send nobody receives, and so is the collector
AtRest(r) ==
    /\ pc[r] \in { "idle", "done" }
    /\ \A i \in Item : wpc[r][i] \in { "none", "done", "sendRes", "sendErr" }
    /\ cpc[r] \in { "none", "send", "done" }

\* requests arrive in order; unless concurrent is set the next one arrives
\* when the goroutines of the earlier ones have come to rest
MayStart(r) ==
    /\ pc[r] = "idle"
    /\ IF r = 1 THEN TRUE ELSE pc[r - 1] # "idle"
    /\ concurrent \/ \A r2 \in Req \ {r} : AtRest(r2)

\* only the chan build validates its parameters
Invalid(query) ==
    query.Champion = <<>> \/ query.Opponent = <<>> \/ query.Role = <<>>

\* entry: the rdb nil check, reading the query, (chan) validating it, building
\* the key
Start(r) ==
    /\ ~crashed
    /\ MayStart(r)
    /\ \E c \in Champs, o \in Opps, ro \in Roles :
         LET query == [Champion |-> c, Opponent |-> o, Role |-> ro] IN
         /\ q' = [q EXCEPT ![r] = query]
         /\ IF ~rdbInit
            THEN /\ Return(r, ErrorReply(StatusInternalServerError,
                                         "Redis client not initialized"))
                 /\ UNCHANGED key
            ELSE IF variant = "chan" /\ Invalid(query)
            THEN /\ Return(r, ErrorReply(StatusBadRequest,
                                         "Missing required parameters"))
                 /\ UNCHANGED key
            ELSE /\ key' = [key EXCEPT ![r] = Key(query)]
                 /\ pc' = [pc EXCEPT ![r] = "get"]
                 /\ UNCHANGED << resp, ctxErr >>
    /\ UNCHANGED << getRes, variant, open, value, home, alerted, location, results, searchItem, scraped, items, filteredItems, recvd, post, formatted, searchRes, rdbInit, crashed, concurrent, cache,
                    nItems, wpc, outcome, mu, cpc, buf, errs, got, calls, setLog >>

\* the request context finishes (the 3 minute timeout, or the client going
\* away) while the handler runs; the wg build uses context.Background()
Deadline(r) ==
    /\ ~crashed
    /\ variant # "wg"
    /\ pc[r] \notin { "idle", "done" }
    /\ ctxErr[r] = "nil"
    /\ ctxErr' = [ctxErr EXCEPT ![r] = "DeadlineExceeded"]
    /\ UNCHANGED << getRes, variant, open, value, home, alerted, location, results, searchItem, scraped, items, filteredItems, recvd, post, formatted, key, searchRes, rdbInit, crashed, concurrent, cache, pc, q, nItems,
                    wpc, outcome, mu, cpc, buf, errs, got, resp, calls, setLog >>

\* CacheGet with a hit that is not returned: the handler goes on to Search
CacheGetHitRecomputes(r) ==
    /\ ~crashed
    /\ pc[r] = "get"
    /\ calls' = [calls EXCEPT ![r].get = @ + 1]
    /\ \E failed \in GetFailures(r) :
         IF failed
         THEN /\ getRes' = [getRes EXCEPT ![r] = [err |-> "error", advice |-> <<>>]]
              /\ Return(r, ErrorReply(StatusInternalServerError, "Redis error"))
         ELSE /\ getRes' = [getRes EXCEPT ![r] =
                              IF key[r] \in DOMAIN cache
                              THEN [err |-> "nil", advice |-> cache[key[r]]]
                              ELSE [err |-> "redis.Nil", advice |-> <<>>]]
              /\ pc' = [pc EXCEPT ![r] = "search"]
              /\ UNCHANGED << resp, ctxErr >>
    /\ UNCHANGED << variant, open, value, home, alerted, location, results, searchItem, scraped, items, filteredItems, recvd, post, formatted, key, searchRes, rdbInit, crashed, concurrent, cache, q, nItems, wpc,
                    outcome, mu, cpc, buf, errs, got, setLog >>

\* CacheGet with a store failure taken for a miss: the handler recomputes
CacheGetErrorAsMiss(r) ==
    /\ ~crashed
    /\ pc[r] = "get"
    /\ calls' = [calls EXCEPT ![r].get = @ + 1]
    /\ \E failed \in GetFailures(r) :
         IF ~failed /\ key[r] \in DOMAIN cache
         THEN /\ getRes' = [getRes EXCEPT ![r] =
                              [err |-> "nil", advice |-> cache[key[r]]]]
              /\ Return(r, AdviceReply(StatusOK, cache[key[r]]))
         ELSE /\ getRes' = [getRes EXCEPT ![r] =
                              [err |-> IF failed THEN "error" ELSE "redis.Nil",
                               advice |-> <<>>]]
              /\ pc' = [pc EXCEPT ![r] = "search"]
              /\ UNCHANGED << resp, ctxErr >>
    /\ UNCHANGED << variant, open, value, home, alerted, location, results, searchItem, scraped, items, filteredItems, recvd, post, formatted, key, searchRes, rdbInit, crashed, concurrent, cache, q, nItems, wpc,
                    outcome, mu, cpc, buf, errs, got, setLog >>

\* advice, err := rdb.Get(ctx, key).Result() and the three-way branch on err:
\* nil is a hit, redis.Nil a miss, anything else a failure of the store
CacheGet(r) ==
    /\ ~crashed
    /\ pc[r] = "get"
    /\ calls' = [calls EXCEPT ![r].get = @ + 1]
    /\ \E failed \in GetFailures(r) :
         IF failed
         THEN /\ getRes' = [getRes EXCEPT ![r] = [err |-> "error", advice |-> <<>>]]
              /\ Return(r, ErrorReply(StatusInternalServerError, "Redis error"))
         ELSE IF key[r] \in DOMAIN cache
         THEN /\ getRes' = [getRes EXCEPT ![r] =
                              [err |-> "nil", advice |-> cache[key[r]]]]
              /\ Return(r, AdviceReply(StatusOK, cache[key[r]]))
         ELSE /\ getRes' = [getRes EXCEPT ![r] =
                              [err |-> "redis.Nil", advice |-> <<>>]]
              /\ pc' = [pc EXCEPT ![r] = "search"]
              /\ UNCHANGED << resp, ctxErr >>
    /\ UNCHANGED << variant, open, value, home, alerted, location, results, searchItem, scraped, items, filteredItems, recvd, post, formatted, key, searchRes, rdbInit, crashed, concurrent, cache, q, nItems, wpc,
                    outcome, mu, cpc, buf, errs, got, setLog >>

(***************************************************************************)
(* search.Search and the fan-out.                                          *)
(***************************************************************************)
\* the first state of a worker goroutine: the wgctx build polls ctx.Done()
FirstWorkerStep == IF variant = "wgctx" THEN "check" ELSE "scrape"

\* one goroutine per item
Spawned(n) == [i \in Item |-> IF i <= n THEN FirstWorkerStep ELSE "none"]

\* how a call of search.Search can end: .env not loaded, http.Get failed, the
\* body is not the JSON of a SearchResponse, the API answered with an error
\* object (which decodes to a SearchResponse without items; the status code
\* is not looked at), or the API answered with a result list
SearchCauses == { "env", "transport", "decode", "apiError", "items" }

\* the causes search.Search turns into a non-nil error
SearchErrs == { "env", "transport", "decode" }

\* Search with the err of search.Search dropped: a failed search goes on as an
\* empty result
SearchIgnoresError(r) ==
    /\ ~crashed
    /\ pc[r] = "search"
    /\ calls' = [calls EXCEPT ![r].search = @ + 1]
    /\ \E cause \in SearchCauses, found \in 0..MaxItems :
         LET n == IF cause = "items" THEN found ELSE 0 IN
         /\ searchRes' = [searchRes EXCEPT ![r] =
                            [err |-> IF cause \in SearchErrs THEN "error" ELSE "nil",
                             cause |-> cause]]
         /\ IF variant = "chan" /\ n = 0
            THEN \E ok \in SetResults(r) :
                   /\ cache' = StoreAfterSet(cache, key[r], Placeholder, ok)
                   /\ setLog' = [setLog EXCEPT ![r] =
                                   Append(@, SetCall(key[r], Placeholder, ok))]
                   /\ Return(r, AdviceReply(StatusOK, Placeholder))
                   /\ UNCHANGED << nItems, wpc, cpc >>
            ELSE /\ nItems' = [nItems EXCEPT ![r] = n]
                 /\ wpc' = [wpc EXCEPT ![r] = Spawned(n)]
                 /\ cpc' = [cpc EXCEPT ![r] = IF variant = "wgctx" THEN "wait" ELSE @]
                 /\ pc' = [pc EXCEPT ![r] =
                             CASE variant = "chan" -> "fanin"
                               [] variant = "wgctx" -> "select"
                               [] OTHER -> "wait"]
                 /\ UNCHANGED << cache, setLog, resp, ctxErr >>
    /\ UNCHANGED << getRes, variant, open, value, home, alerted, location, results, searchItem, scraped, items, filteredItems, recvd, post, formatted, key, rdbInit, crashed, concurrent, q, outcome, mu,
                    buf, errs, got >>

\* searchResults, err := search.Search(q); the empty-result short cut of the
\* chan build; go func(item) for every item
Search(r) ==
    /\ ~crashed
    /\ pc[r] = "search"
    /\ calls' = [calls EXCEPT ![r].search = @ + 1]
    /\ \E cause \in SearchCauses, found \in 0..MaxItems :
         LET n == IF cause = "items" THEN found ELSE 0 IN
         /\ searchRes' = [searchRes EXCEPT ![r] =
                            [err |-> IF cause \in SearchErrs THEN "error" ELSE "nil",
                             cause |-> cause]]
         /\ IF cause \in SearchErrs
            THEN /\ Return(r, ErrorReply(StatusInternalServerError, "Search failed"))
                 /\ UNCHANGED << cache, nItems, wpc, cpc, setLog >>
            ELSE IF variant = "chan" /\ n = 0
            THEN \E ok \in SetResults(r) :
                   /\ cache' = StoreAfterSet(cache, key[r], Placeholder, ok)
                   /\ setLog' = [setLog EXCEPT ![r] =
                                   Append(@, SetCall(key[r], Placeholder, ok))]
                   /\ Return(r, AdviceReply(StatusOK, Placeholder))
                   /\ UNCHANGED << nItems, wpc, cpc >>
            ELSE /\ nItems' = [nItems EXCEPT ![r] = n]
                 /\ wpc' = [wpc EXCEPT ![r] = Spawned(n)]
                 /\ cpc' = [cpc EXCEPT ![r] = IF variant = "wgctx" THEN "wait" ELSE @]
                 /\ pc' = [pc EXCEPT ![r] =
                             CASE variant = "chan" -> "fanin"
                               [] variant = "wgctx" -> "select"
                               [] OTHER -> "wait"]
                 /\ UNCHANGED << cache, setLog, resp, ctxErr >>
    /\ UNCHANGED << getRes, variant, open, value, home, alerted, location, results, searchItem, scraped, items, filteredItems, recvd, post, formatted, key, rdbInit, crashed, concurrent, q, outcome, mu,
                    buf, errs, got >>

(***************************************************************************)
(* The worker goroutine of one item.                                       *)
(***************************************************************************)
\* wgctx: select { case <-ctx.Done(): return; default: ... }
WorkerCheck(r, i) ==
    /\ ~crashed
    /\ wpc[r][i] = "check"
    /\ IF CtxDone(r)
       THEN /\ wpc' = [wpc EXCEPT ![r][i] = "done"]
            /\ outcome' = [outcome EXCEPT ![r][i] = [kind |-> "skipped", text |-> <<>>]]
       ELSE /\ wpc' = [wpc EXCEPT ![r][i] = "scrape"]
            /\ UNCHANGED outcome
    /\ UNCHANGED << variant, open, value, home, alerted, location, results, searchItem, scraped, items, filteredItems, recvd, post, formatted, key, searchRes, rdbInit, crashed, concurrent, cache, pc, q, ctxErr, getRes,
                    nItems, mu, cpc, buf, errs, got, resp, calls, setLog >>

\* where a worker goes with an error / with a summary in hand
ErrStep == IF variant = "chan" THEN "sendErr" ELSE "lockErr"
ResStep == IF variant = "chan" THEN "sendRes" ELSE "lockRes"

\* Scrape tried again after a failure
ScrapeRetries(r, i) ==
    /\ ~crashed
    /\ wpc[r][i] = "scrape"
    /\ calls' = [calls EXCEPT ![r].scrape[i] = @ + 1]
    /\ \E res \in { "ok", "err", "fatal" } :
         CASE res = "ok" ->
                /\ wpc' = [wpc EXCEPT ![r][i] = "summarize"]
                /\ UNCHANGED << outcome, crashed >>
           [] res = "err" ->
                /\ wpc' = [wpc EXCEPT ![r][i] = "scrape"]
                /\ outcome' = [outcome EXCEPT ![r][i] =
                                 [kind |-> "scrapeErr", text |-> <<>>]]
                /\ UNCHANGED crashed
           [] OTHER ->
                /\ crashed' = TRUE
                /\ outcome' = [outcome EXCEPT ![r][i] =
                                 [kind |-> "fatal", text |-> <<>>]]
                /\ UNCHANGED wpc
    /\ UNCHANGED << variant, open, value, home, alerted, location, results, searchItem, scraped, items, filteredItems, recvd, post, formatted, key, searchRes, rdbInit, concurrent, cache, pc, q, ctxErr, getRes, nItems, mu, cpc, buf, errs, got, resp, setLog >>

\* Scrape with its error dropped: the worker goes on to Summarize
ScrapeErrorIgnored(r, i) ==
    /\ ~crashed
    /\ wpc[r][i] = "scrape"
    /\ calls' = [calls EXCEPT ![r].scrape[i] = @ + 1]
    /\ \E res \in { "ok", "err", "fatal" } :
         CASE res = "ok" ->
                /\ wpc' = [wpc EXCEPT ![r][i] = "summarize"]
                /\ UNCHANGED << outcome, crashed >>
           [] res = "err" ->
                /\ wpc' = [wpc EXCEPT ![r][i] = "summarize"]
                /\ outcome' = [outcome EXCEPT ![r][i] =
                                 [kind |-> "scrapeErr", text |-> <<>>]]
                /\ UNCHANGED crashed
           [] OTHER ->
                /\ crashed' = TRUE
                /\ outcome' = [outcome EXCEPT ![r][i] =
                                 [kind |-> "fatal", text |-> <<>>]]
                /\ UNCHANGED wpc
    /\ UNCHANGED << variant, open, value, home, alerted, location, results, searchItem, scraped, items, filteredItems, recvd, post, formatted, key, searchRes, rdbInit, concurrent, cache, pc, q, ctxErr, getRes, nItems, mu, cpc, buf, errs, got, resp, setLog >>

\* scrapedContent, err := scrape.Scrape(item); getToken ends the process with
\* log.Fatalf when the token request cannot be sent
Scrape(r, i) ==
    /\ ~crashed
    /\ wpc[r][i] = "scrape"
    /\ calls' = [calls EXCEPT ![r].scrape[i] = @ + 1]
    /\ \E res \in { "ok", "err", "fatal" } :
         CASE res = "ok" ->
                /\ wpc' = [wpc EXCEPT ![r][i] = "summarize"]
                /\ UNCHANGED << outcome, crashed >>
           [] res = "err" ->
                /\ wpc' = [wpc EXCEPT ![r][i] = ErrStep]
                /\ outcome' = [outcome EXCEPT ![r][i] =
                                 [kind |-> "scrapeErr", text |-> <<>>]]
                /\ UNCHANGED crashed
           [] OTHER ->
                /\ crashed' = TRUE
                /\ outcome' = [outcome EXCEPT ![r][i] =
                                 [kind |-> "fatal", text |-> <<>>]]
                /\ UNCHANGED wpc
    /\ UNCHANGED << variant, open, value, home, alerted, location, results, searchItem, scraped, items, filteredItems, recvd, post, formatted, key, searchRes, rdbInit, concurrent, cache, pc, q, ctxErr, getRes, nItems, mu, cpc, buf, errs, got, resp, setLog >>

\* the chan build's strings.Contains(summary, "INVALID_INPUT") test
SoftFailureChan(text) == Contains(text, SentinelUnderscore)

\* summary, err := summarize.Summarize(...); Summarize ends the process with
\* log.Fatalf when the SDK config cannot be loaded
Summarize(r, i) ==
    /\ ~crashed
    /\ wpc[r][i] = "summarize"
    /\ calls' = [calls EXCEPT ![r].summarize[i] = @ + 1]
    /\ \/ \E text \in SummaryTexts(i) :
            /\ outcome' = [outcome EXCEPT ![r][i] = [kind |-> "text", text |-> text]]
            /\ wpc' = [wpc EXCEPT ![r][i] =
                         IF variant = "chan" /\ SoftFailureChan(text)
                         THEN ErrStep ELSE ResStep]
            /\ UNCHANGED crashed
       \/ /\ outcome' = [outcome EXCEPT ![r][i] = [kind |-> "sumErr", text |-> <<>>]]
          /\ wpc' = [wpc EXCEPT ![r][i] = ErrStep]
          /\ UNCHANGED crashed
       \/ /\ outcome' = [outcome EXCEPT ![r][i] = [kind |-> "fatal", text |-> <<>>]]
          /\ crashed' = TRUE
          /\ UNCHANGED wpc
    /\ UNCHANGED << variant, open, value, home, alerted, location, results, searchItem, scraped, items, filteredItems, recvd, post, formatted, key, searchRes, rdbInit, concurrent, cache, pc, q, ctxErr, getRes, nItems, mu, cpc, buf, errs, got, resp, setLog >>

\* the failure reason a worker reports for item i
Reason(r, i) ==
    [kind |-> CASE outcome[r][i].kind = "scrapeErr" -> "scraping"
                [] outcome[r][i].kind = "sumErr" -> "summarization"
                [] OTHER -> "invalid input",
     item |-> i]

\* WorkerLock without the mutex: the worker goes on whoever holds mu
WorkerLockNoMutex(r, i) ==
    /\ ~crashed
    /\ wpc[r][i] \in { "lockErr", "lockRes" }
    /\ mu' = [mu EXCEPT ![r] = i]
    /\ wpc' = [wpc EXCEPT ![r][i] = IF @ = "lockErr" THEN "appendErr" ELSE "writeRes"]
    /\ UNCHANGED << variant, open, value, home, alerted, location, results, searchItem, scraped, items, filteredItems, recvd, post, formatted, key, searchRes, rdbInit, crashed, concurrent, cache, pc, q,
                    ctxErr, getRes, nItems, outcome, cpc, buf, errs, got, resp, calls,
                    setLog >>

\* wg builds: mu.Lock()
WorkerLock(r, i) ==
    /\ ~crashed
    /\ wpc[r][i] \in { "lockErr", "lockRes" }
    /\ mu[r] = 0
    /\ mu' = [mu EXCEPT ![r] = i]
    /\ wpc' = [wpc EXCEPT ![r][i] = IF @ = "lockErr" THEN "appendErr" ELSE "writeRes"]
    /\ UNCHANGED << variant, open, value, home, alerted, location, results, searchItem, scraped, items, filteredItems, recvd, post, formatted, key, searchRes, rdbInit, crashed, concurrent, cache, pc, q, ctxErr, getRes,
                    nItems, outcome, cpc, buf, errs, got, resp, calls,
                    setLog >>

\* wg builds: errors = append(errors, ...); mu.Unlock(); return
WorkerAppendErr(r, i) ==
    /\ ~crashed
    /\ wpc[r][i] = "appendErr"
    /\ errs' = [errs EXCEPT ![r] = Append(@, Reason(r, i))]
    /\ mu' = [mu EXCEPT ![r] = 0]
    /\ wpc' = [wpc EXCEPT ![r][i] = "done"]
    /\ UNCHANGED << variant, open, value, home, alerted, location, results, searchItem, scraped, items, filteredItems, recvd, post, formatted, key, searchRes, rdbInit, crashed, concurrent, cache, pc, q, ctxErr, getRes,
                    nItems, outcome, cpc, buf, got, resp, calls, setLog >>

\* WorkerWrite with the summary put in front of the buffer
WorkerWritePrepends(r, i) ==
    /\ ~crashed
    /\ wpc[r][i] = "writeRes"
    /\ buf' = [buf EXCEPT ![r] = outcome[r][i].text \o BlankLine \o @]
    /\ recvd' = [recvd EXCEPT ![r] = Append(@, i)]
    /\ mu' = [mu EXCEPT ![r] = 0]
    /\ wpc' = [wpc EXCEPT ![r][i] = "done"]
    /\ UNCHANGED << variant, open, value, home, alerted, location, results, searchItem, scraped, items, filteredItems, post, formatted, key, searchRes, rdbInit, crashed, concurrent, cache, pc, q, ctxErr, getRes,
                    nItems, outcome, cpc, errs, got, resp, calls, setLog >>

\* wg builds: buffer.WriteString(summary + "\n\n"); mu.Unlock()
WorkerWrite(r, i) ==
    /\ ~crashed
    /\ wpc[r][i] = "writeRes"
    /\ buf' = [buf EXCEPT ![r] = @ \o outcome[r][i].text \o BlankLine]
    /\ recvd' = [recvd EXCEPT ![r] = Append(@, i)]
    /\ mu' = [mu EXCEPT ![r] = 0]
    /\ wpc' = [wpc EXCEPT ![r][i] = "done"]
    /\ UNCHANGED << variant, open, value, home, alerted, location, results, searchItem, scraped, items, filteredItems, post, formatted, key, searchRes, rdbInit, crashed, concurrent, cache, pc, q, ctxErr, getRes,
                    nItems, outcome, cpc, errs, got, resp, calls, setLog >>

(***************************************************************************)
(* Fan-in of the chan build: the for/select loop and what follows it.      *)
(***************************************************************************)
\* RecvResult with the message left in the channel: it can be taken again
RecvResultKeepsMessage(r, i) ==
    /\ ~crashed
    /\ pc[r] = "fanin"
    /\ got[r] < nItems[r]
    /\ wpc[r][i] = "sendRes"
    /\ buf' = [buf EXCEPT ![r] = (@ \o outcome[r][i].text) \o BlankLine]
    /\ recvd' = [recvd EXCEPT ![r] = Append(@, i)]
    /\ got' = [got EXCEPT ![r] = @ + 1]
    /\ UNCHANGED wpc
    /\ UNCHANGED << variant, open, value, home, alerted, location, results, searchItem, scraped, items, filteredItems, post, formatted, key, searchRes, rdbInit, crashed, concurrent, cache, pc, q, ctxErr, getRes,
                    nItems, outcome, mu, cpc, errs, resp, calls, setLog >>

\* case summary := <-resultChan, together with the worker's send
RecvResult(r, i) ==
    /\ ~crashed
    /\ pc[r] = "fanin"
    /\ got[r] < nItems[r]
    /\ wpc[r][i] = "sendRes"
    /\ buf' = [buf EXCEPT ![r] = (@ \o outcome[r][i].text) \o BlankLine]
    /\ recvd' = [recvd EXCEPT ![r] = Append(@, i)]
    /\ got' = [got EXCEPT ![r] = @ + 1]
    /\ wpc' = [wpc EXCEPT ![r][i] = "done"]
    /\ UNCHANGED << variant, open, value, home, alerted, location, results, searchItem, scraped, items, filteredItems, post, formatted, key, searchRes, rdbInit, crashed, concurrent, cache, pc, q, ctxErr, getRes,
                    nItems, outcome, mu, cpc, errs, resp, calls, setLog >>

\* case err := <-errorChan (errorCount is Len(errs)), with the worker's send
RecvError(r, i) ==
    /\ ~crashed
    /\ pc[r] = "fanin"
    /\ got[r] < nItems[r]
    /\ wpc[r][i] = "sendErr"
    /\ errs' = [errs EXCEPT ![r] = Append(@, Reason(r, i))]
    /\ got' = [got EXCEPT ![r] = @ + 1]
    /\ wpc' = [wpc EXCEPT ![r][i] = "done"]
    /\ UNCHANGED << variant, open, value, home, alerted, location, results, searchItem, scraped, items, filteredItems, recvd, post, formatted, key, searchRes, rdbInit, crashed, concurrent, cache, pc, q, ctxErr, getRes,
                    nItems, outcome, mu, cpc, buf, resp, calls, setLog >>

\* case <-ctx.Done() of the fan-in select (chan) or of the outer select (wgctx)
Timeout(r) ==
    /\ ~crashed
    /\ \/ pc[r] = "fanin" /\ got[r] < nItems[r]
       \/ pc[r] = "select"
    /\ CtxDone(r)
    /\ Return(r, ErrorReply(StatusRequestTimeout,
                            "Processing took too long and was terminated"))
    /\ UNCHANGED << getRes, variant, open, value, home, alerted, location, results, searchItem, scraped, items, filteredItems, recvd, post, formatted, key, searchRes, rdbInit, crashed, concurrent, cache, q, nItems, wpc, outcome, mu, cpc, buf, errs, got, calls, setLog >>

\* after the loop: placeholder or finalAdvice, rdb.Set (an error is logged),
\* 200
FinishChan(r) ==
    /\ ~crashed
    /\ pc[r] = "fanin"
    /\ got[r] = nItems[r]
    /\ LET advice == IF Len(buf[r]) = 0 \/ Len(errs[r]) = nItems[r]
                     THEN Placeholder ELSE buf[r]
       IN \E ok \in SetResults(r) :
            /\ cache' = StoreAfterSet(cache, key[r], advice, ok)
            /\ setLog' = [setLog EXCEPT ![r] =
                            Append(@, SetCall(key[r], advice, ok))]
            /\ Return(r, AdviceReply(StatusOK, advice))
    /\ UNCHANGED << getRes, variant, open, value, home, alerted, location, results, searchItem, scraped, items, filteredItems, recvd, post, formatted, key, searchRes, rdbInit, crashed, concurrent, q, nItems, wpc,
                    outcome, mu, cpc, buf, errs, got, calls >>

(***************************************************************************)
(* Fan-in of the wg builds.                                                *)
(***************************************************************************)
\* wgctx: the collector goroutine's wg.Wait() returns
CollectorWait(r) ==
    /\ ~crashed
    /\ cpc[r] = "wait"
    /\ AllWorkersDone(r)
    /\ cpc' = [cpc EXCEPT ![r] = "send"]
    /\ UNCHANGED << variant, open, value, home, alerted, location, results, searchItem, scraped, items, filteredItems, recvd, post, formatted, key, searchRes, rdbInit, crashed, concurrent, cache, pc, q, ctxErr, getRes,
                    nItems, wpc, outcome, mu, buf, errs, got, resp, calls,
                    setLog >>

\* Aggregate with a failed rdb.Set only logged, as the chan build does
AggregateLogsSetError(r) ==
    IF Len(errs[r]) > 0
    THEN /\ Return(r, PartialReply(buf[r], errs[r]))
         /\ UNCHANGED << cache, setLog >>
    ELSE \E ok \in SetResults(r) :
           /\ cache' = StoreAfterSet(cache, key[r], buf[r], ok)
           /\ setLog' = [setLog EXCEPT ![r] =
                           Append(@, SetCall(key[r], buf[r], ok))]
           /\ Return(r,
                 IF Contains(buf[r], SentinelHyphen)
                 THEN AdviceReply(StatusOK, Placeholder)
                 ELSE AdviceReply(StatusOK, buf[r]))

\* Aggregate with the return after the placeholder reply left out: the
\* handler falls through to the reply with str
AggregateFallsThrough(r) ==
    IF Len(errs[r]) > 0
    THEN /\ Return(r, PartialReply(buf[r], errs[r]))
         /\ UNCHANGED << cache, setLog >>
    ELSE \E ok \in SetResults(r) :
           /\ cache' = StoreAfterSet(cache, key[r], buf[r], ok)
           /\ setLog' = [setLog EXCEPT ![r] =
                           Append(@, SetCall(key[r], buf[r], ok))]
           /\ IF ~ok
              THEN Return(r, ErrorReply(StatusInternalServerError,
                                        "Failed to set Redis key"))
              ELSE IF Contains(buf[r], SentinelHyphen)
              THEN /\ resp' = [resp EXCEPT ![r] =
                                 Append(Append(@, AdviceReply(StatusOK, Placeholder)),
                                        AdviceReply(StatusOK, buf[r]))]
                   /\ pc' = [pc EXCEPT ![r] = "done"]
                   /\ ctxErr' = [ctxErr EXCEPT ![r] =
                                   IF variant # "wg" /\ @ = "nil" THEN "Canceled" ELSE @]
              ELSE Return(r, AdviceReply(StatusOK, buf[r]))

\* what the wg builds do with the finished buffer and errors: 206 when there
\* are errors; otherwise rdb.Set(key, str), 500 when it fails, else 200 with
\* the placeholder when str holds "INVALID-INPUT" and with str when not
Aggregate(r) ==
    IF Len(errs[r]) > 0
    THEN /\ Return(r, PartialReply(buf[r], errs[r]))
         /\ UNCHANGED << cache, setLog >>
    ELSE \E ok \in SetResults(r) :
           /\ cache' = StoreAfterSet(cache, key[r], buf[r], ok)
           /\ setLog' = [setLog EXCEPT ![r] =
                           Append(@, SetCall(key[r], buf[r], ok))]
           /\ Return(r,
                 IF ~ok
                 THEN ErrorReply(StatusInternalServerError,
                                 "Failed to set Redis key")
                 ELSE IF Contains(buf[r], SentinelHyphen)
                 THEN AdviceReply(StatusOK, Placeholder)
                 ELSE AdviceReply(StatusOK, buf[r]))

\* wgctx: case result := <-resultChan, together with the collector's send
HandlerRecv(r) ==
    /\ ~crashed
    /\ pc[r] = "select"
    /\ cpc[r] = "send"
    /\ cpc' = [cpc EXCEPT ![r] = "done"]
    /\ Aggregate(r)
    /\ UNCHANGED << getRes, variant, open, value, home, alerted, location, results, searchItem, scraped, items, filteredItems, recvd, post, formatted, key, searchRes, rdbInit, crashed, concurrent, q, nItems, wpc,
                    outcome, mu, buf, errs, got, calls >>

\* wg: wg.Wait() returns in the handler itself
FinishWg(r) ==
    /\ ~crashed
    /\ pc[r] = "wait"
    /\ AllWorkersDone(r)
    /\ Aggregate(r)
    /\ UNCHANGED << getRes, variant, open, value, home, alerted, location, results, searchItem, scraped, items, filteredItems, recvd, post, formatted, key, searchRes, rdbInit, crashed, concurrent, q, nItems, wpc,
                    outcome, mu, cpc, buf, errs, got, calls >>

(***************************************************************************)
(* The specification.                                                      *)
(***************************************************************************)
Next ==
    \/ \E r \in Req : Start(r)
    \/ \E r \in Req : Deadline(r)
    \/ \E r \in Req : CacheGet(r)
    \/ \E r \in Req : Search(r)
    \/ \E r \in Req, i \in Item : WorkerCheck(r, i)
    \/ \E r \in Req, i \in Item : Scrape(r, i)
    \/ \E r \in Req, i \in Item : Summarize(r, i)
    \/ \E r \in Req, i \in Item : WorkerLock(r, i)
    \/ \E r \in Req, i \in Item : WorkerAppendErr(r, i)
    \/ \E r \in Req, i \in Item : WorkerWrite(r, i)
    \/ \E r \in Req, i \in Item : RecvResult(r, i)
    \/ \E r \in Req, i \in Item : RecvError(r, i)
    \/ \E r \in Req : Timeout(r)
    \/ \E r \in Req : FinishChan(r)
    \/ \E r \in Req : CollectorWait(r)
    \/ \E r \in Req : HandlerRecv(r)
    \/ \E r \in Req : FinishWg(r)

Spec == Init /\ [][Next]_vars

(***************************************************************************)
(* One request at a time, with the scheduling the runtime guarantees: a    *)
(* runnable goroutine runs and the timer of context.WithTimeout fires.     *)
(* Nothing makes a goroutine come back from the network calls of Search,   *)
(* Scrape and Summarize (http.Get and the SDK call carry no deadline), so   *)
(* those three steps carry no fairness; rdb.Get and rdb.Set come back at   *)
(* the latest when their context or the client's read timeout ends.        *)
(***************************************************************************)
NextLive == Next /\ \A r \in Req \ {1} : pc'[r] = "idle"

Fairness ==
    \A r \in Req :
      /\ WF_vars(Deadline(r))
      /\ WF_vars(CacheGet(r))
      /\ WF_vars(Timeout(r))
      /\ WF_vars(FinishChan(r))
      /\ WF_vars(CollectorWait(r))
      /\ WF_vars(HandlerRecv(r))
      /\ WF_vars(FinishWg(r))
      /\ \A i \in Item :
           /\ WF_vars(WorkerCheck(r, i))
           /\ WF_vars(WorkerLock(r, i))
           /\ WF_vars(WorkerAppendErr(r, i))
           /\ WF_vars(WorkerWrite(r, i))
           /\ WF_vars(RecvResult(r, i))
           /\ WF_vars(RecvError(r, i))

SpecLive == Init /\ [][NextLive]_vars /\ Fairness

(***************************************************************************)
(* Overlapping requests: net/http serves every request in a goroutine of    *)
(* its own, so a request may arrive while another is under way.            *)
(***************************************************************************)
InitConc ==
    /\ InitCommon
    /\ rdbInit = TRUE
    /\ q = [r \in Req |-> NoQuery]
    /\ concurrent = TRUE
    /\ post = NoPost
    /\ formatted = NotFormatted
    /\ searchItem = NoItem
    /\ items = <<>>

NextConc == Next /\ \A r \in Req : nItems'[r] <= MaxConcItems

SpecConc == InitConc /\ [][NextConc]_vars

(***************************************************************************)
(* The key of line 86 on its own: requests whose parameters are drawn from *)
(* the non-empty strings over an alphabet holding the two separators.      *)
(***************************************************************************)
KeyAlphabet == { "v", "@" }

KeyStrings == UNION { [1..n -> KeyAlphabet] : n \in 1..MaxKeyLen }

InitKey ==
    /\ InitCommon
    /\ variant = "chan"
    /\ rdbInit = TRUE
    /\ concurrent = TRUE
    /\ post = NoPost
    /\ formatted = NotFormatted
    /\ searchItem = NoItem
    /\ items = <<>>
    /\ q \in [Req -> [Champion : KeyStrings, Opponent : KeyStrings,
                      Role : KeyStrings]]

\* key := q.Champion + "v" + q.Opponent + "@" + q.Role of a validated query
BuildKey(r) ==
    /\ pc[r] = "idle"
    /\ ~Invalid(q[r])
    /\ key' = [key EXCEPT ![r] = Key(q[r])]
    /\ pc' = [pc EXCEPT ![r] = "get"]
    /\ UNCHANGED << variant, open, value, home, alerted, location, results, searchItem, scraped, items, filteredItems, recvd, post, formatted, rdbInit, crashed, concurrent, cache, q, ctxErr, getRes,
                    searchRes, nItems, wpc, outcome, mu, cpc, buf, errs, got, resp,
                    calls, setLog >>

NextKey == \E r \in Req : BuildKey(r)

SpecKey == InitKey /\ [][NextKey]_vars

(***************************************************************************)
(* summarize.formatPostContent on its own.  A comment is known by its id,  *)
(* the path of indices that leads to it in the Post; an entry stands for   *)
(* the line formatEntry writes for it at an indent level.                  *)
(***************************************************************************)
Range(f) == { f[k] : k \in DOMAIN f }

Min(a, b) == IF a <= b THEN a ELSE b

\* the orders in which sort.Slice(comments, Score >) can leave the elements:
\* scores do not increase, equal scores come in any order (the sort is not
\* stable)
RECURSIVE SortedOrders(_)
SortedOrders(S) ==
    IF S = {} THEN { <<>> }
    ELSE UNION { { << c >> \o rest : rest \in SortedOrders(S \ {c}) } :
                 c \in { c \in S : \A d \in S : d.Score <= c.Score } }

\* getTopComments with the sort.Slice left out
getTopCommentsUnsorted(comments, n) ==
    { SubSeq(comments, 1, Min(Len(comments), n)) }

\* getTopComments(comments, n): the results it can give
getTopComments(comments, n) ==
    { SubSeq(sorted, 1, Min(Len(comments), n)) :
        sorted \in SortedOrders(Range(comments)) }

\* formatEntry without the check of the permalink
formatEntryAnyPermalink(c, indentLevel) ==
    [indent |-> indentLevel, id |-> c.id, Score |-> c.Score, err |-> "nil"]

\* formatEntry(..., indentLevel): the line, or the error for an empty permalink
formatEntry(c, indentLevel) ==
    [indent |-> indentLevel, id |-> c.id, Score |-> c.Score,
     err |-> IF c.Permalink = <<>> THEN "empty permalink" ELSE "nil"]

\* the entries of the inner loop over topReplies
Lines(replies) == [k \in 1..Len(replies) |-> formatEntry(replies[k], 2)]

\* the entries the loop over topComments can write for the comments cs
RECURSIVE Blocks(_)
Blocks(cs) ==
    IF cs = <<>> THEN { <<>> }
    ELSE { (<< formatEntry(Head(cs), 1) >> \o Lines(topReplies)) \o rest :
             topReplies \in getTopComments(Head(cs).Replies, TopReplies),
             rest \in Blocks(Tail(cs)) }

\* what formatPostContent returns once the post has its entry, for the
\* topComments top and the entries block of the two loops: the first
\* formatEntry that fails ends it with an empty string.  topComments and
\* topReplies are the ids of the comments and replies getTopComments had
\* handed out by then (the replies of the comments whose entry was written).
Returned(p, top, block) ==
    LET all    == << formatEntry(p, 0) >> \o block
        failed == { k \in 1..Len(all) : all[k].err # "nil" }
        first  == CHOOSE k \in failed : \A j \in failed : k <= j
        parent(j) == CHOOSE k \in 1..(j - 1) :
                        /\ all[k].indent = 1
                        /\ \A m \in (k + 1)..(j - 1) : all[m].indent # 1
        replies == { j \in 1..Len(all) : all[j].indent = 2 }
    IN  IF failed = {}
        THEN [entries |-> all, err |-> "nil",
              topComments |-> { c.id : c \in Range(top) },
              topReplies |-> { all[j].id : j \in replies }]
        ELSE [entries |-> <<>>, err |-> "error",
              topComments |-> { c.id : c \in Range(top) },
              topReplies |-> { all[j].id : j \in { i \in replies : parent(i) < first } }]

\* formatPostContent(post): the (string, error) results it can give
formatPostContent(p) ==
    IF formatEntry(p, 0).err # "nil"
    THEN { [entries |-> <<>>, err |-> "error", topComments |-> {}, topReplies |-> {}] }
    ELSE UNION { { Returned(p, top, block) : block \in Blocks(top) } :
                   top \in getTopComments(p.Comments, TopComments) }

\* the posts handed to formatPostContent
Scores == 1..MaxScore

ScoreLists(n) == UNION { [1..m -> Scores] : m \in 0..n }

\* where the post has an empty permalink: nowhere, in the post itself, in its
\* first comment, in the first reply to its first comment
EmptyPermalinks == { "none", "post", "comment", "reply" }

Permalink(empty) == IF empty THEN <<>> ELSE << "p" >>

\* a reply to a reply, with the highest score there is
Deeper(c, k) ==
    [id |-> << c, k, 1 >>, Score |-> MaxScore, Permalink |-> << "p" >>,
     Replies |-> <<>>]

\* the replies of comment c, with the scores rs
RepliesOf(c, rs, empty) ==
    [k \in 1..Len(rs) |->
       [id |-> << c, k >>, Score |-> rs[k], Permalink |-> Permalink(empty /\ k = 1),
        Replies |-> << Deeper(c, k) >>]]

\* a post whose comments have the scores cs; comment 1 has replies with the
\* scores rs, comment 2 all but the first of them, the others none
MakePost(where, cs, rs) ==
    [id |-> <<>>, Permalink |-> Permalink(where = "post"), Score |-> 1,
     Comments |->
       [c \in 1..Len(cs) |->
          [id |-> << c >>, Score |-> cs[c],
           Permalink |-> Permalink(c = 1 /\ where = "comment"),
           Replies |-> CASE c = 1 -> RepliesOf(c, rs, where = "reply")
                         [] c = 2 /\ rs # <<>> -> RepliesOf(c, Tail(rs), FALSE)
                         [] OTHER -> <<>>]]]

InitFormat ==
    /\ InitCommon
    /\ variant = "chan"
    /\ rdbInit = TRUE
    /\ concurrent = FALSE
    /\ q = [r \in Req |-> NoQuery]
    /\ formatted = NotFormatted
    /\ searchItem = NoItem
    /\ items = <<>>
    /\ post \in { MakePost(where, cs, rs) :
                    where \in EmptyPermalinks,
                    cs \in ScoreLists(MaxComments), rs \in ScoreLists(MaxReplies) }

\* formattedPost, err := formatPostContent(post)
Format ==
    /\ formatted.err = "unset"
    /\ formatted' \in formatPostContent(post)
    /\ UNCHANGED << variant, open, value, home, alerted, location, results, searchItem, scraped, items, filteredItems, rdbInit, crashed, concurrent, cache, pc, q, key, ctxErr,
                    getRes, searchRes, nItems, wpc, outcome, mu, cpc, buf, errs, got,
                    resp, calls, setLog, recvd, post >>

NextFormat == Format

SpecFormat == InitFormat /\ [][NextFormat]_vars

(***************************************************************************)
(* The client: the Home page with its three Comboboxes, and the Results    *)
(* page it navigates to.  The values of the selections are plain strings,  *)
(* "" is the empty string of useState("").                                 *)
(***************************************************************************)
\* the values of the selections of a Combobox: two champions stand for
\* champions.json, the roles are those of the roles array
Selections(box) ==
    IF box = "role" THEN { "top", "jungle", "mid", "adc", "support" }
    ELSE { "Aatrox", "Ahri" }

OnHome == location.pathname = "/"

\* <Popover open={open} onOpenChange={setOpen}>: the trigger or a click
\* outside opens and closes the list
OpenChange(box) ==
    /\ OnHome
    /\ open' = [open EXCEPT ![box] = ~@]
    /\ UNCHANGED << variant, value, home, alerted, location, results, searchItem,
                    scraped, items, filteredItems, rdbInit, crashed, concurrent,
                    cache, pc, q, key, ctxErr, getRes, searchRes, nItems, wpc,
                    outcome, mu, cpc, buf, errs, got, resp, calls, setLog, recvd,
                    post, formatted >>

\* onSelect of a CommandItem of the open list; the parent's onSelect is
\* setChampion, setOpponent or setRole
Select(box, currentValue) ==
    /\ OnHome
    /\ open[box]
    /\ value' = [value EXCEPT ![box] = IF currentValue = @ THEN "" ELSE currentValue]
    /\ open' = [open EXCEPT ![box] = FALSE]
    /\ home' = [home EXCEPT ![box] = currentValue]
    /\ UNCHANGED << variant, alerted, location, results, searchItem,
                    scraped, items, filteredItems, rdbInit, crashed, concurrent,
                    cache, pc, q, key, ctxErr, getRes, searchRes, nItems, wpc,
                    outcome, mu, cpc, buf, errs, got, resp, calls, setLog, recvd,
                    post, formatted >>

\* handleSubmit without the test for a mirror matchup
handleSubmitNoMirrorTest ==
    /\ OnHome
    /\ IF home.champion = "" \/ home.opponent = "" \/ home.role = ""
       THEN /\ alerted' = << "Fill in all fields!" >>
            /\ UNCHANGED location
       ELSE /\ alerted' = << home.champion, home.opponent >>
            /\ location' = [pathname |-> "/results", state |-> home]
    /\ UNCHANGED << variant, open, value, home, results, searchItem,
                    scraped, items, filteredItems, rdbInit, crashed, concurrent,
                    cache, pc, q, key, ctxErr, getRes, searchRes, nItems, wpc,
                    outcome, mu, cpc, buf, errs, got, resp, calls, setLog, recvd,
                    post, formatted >>

\* handleSubmit, onMouseDown of the go! button
handleSubmit ==
    /\ OnHome
    /\ IF home.champion = "" \/ home.opponent = "" \/ home.role = ""
       THEN /\ alerted' = << "Fill in all fields!" >>
            /\ UNCHANGED location
       ELSE IF home.champion = home.opponent
       THEN /\ alerted' = << "Mirror matchups should be obvious!" >>
            /\ UNCHANGED location
       ELSE /\ alerted' = << home.champion, home.opponent >>
            /\ location' = [pathname |-> "/results", state |-> home]
    /\ UNCHANGED << variant, open, value, home, results, searchItem,
                    scraped, items, filteredItems, rdbInit, crashed, concurrent,
                    cache, pc, q, key, ctxErr, getRes, searchRes, nItems, wpc,
                    outcome, mu, cpc, buf, errs, got, resp, calls, setLog, recvd,
                    post, formatted >>

\* s.split(sep) for a non-empty separator: the pieces between the
\* occurrences of sep, found from the left
RECURSIVE split(_, _)
split(s, sep) ==
    LET at == { i \in 1..(Len(s) - Len(sep) + 1) :
                  SubSeq(s, i, i + Len(sep) - 1) = sep }
    IN  IF at = {} THEN << s >>
        ELSE LET i == CHOOSE i \in at : \A j \in at : i <= j
             IN  << SubSeq(s, 1, i - 1) >>
                   \o split(SubSeq(s, i + Len(sep), Len(s)), sep)

\* a.slice(0, end) for a negative end: all but the last -end elements
slice(a, end) == SubSeq(a, 1, Len(a) + end)

\* what the Results page shows for its state
Rendered(loading, error, data) ==
    CASE loading -> [view |-> "loading", points |-> <<>>]
      [] error # "null" -> [view |-> "error", points |-> <<>>]
      [] data = <<>> -> [view |-> "No data available", points |-> <<>>]
      [] OTHER -> [view |-> "advice",
                   points |-> slice(split(data[1].advice, BlankLine), -1)]

\* the replies the server can send with an advice text: that of a hit or of
\* a fan-in with at least one artifact, the placeholder; and its error replies
Replies ==
    { AdviceReply(StatusOK, text) :
        text \in { Placeholder }
                   \cup UNION { AdviceTexts(S) : S \in (SUBSET Item) \ { {} } } }
    \cup { ErrorReply(code, "error") :
             code \in { StatusBadRequest, StatusRequestTimeout,
                        StatusInternalServerError } }

\* response.ok
Ok(response) == response.code \in 200..299

\* the effect of the Results page: fetchData, then the page as it renders
fetchData ==
    /\ location.pathname = "/results"
    /\ results.loading
    /\ \E failed \in BOOLEAN, response \in Replies :
         LET error == IF failed \/ ~Ok(response)
                      THEN "Failed to fetch data" ELSE "null"
             data  == IF failed \/ ~Ok(response)
                      THEN <<>> ELSE << [advice |-> response.advice] >>
             shown == Rendered(FALSE, error, data)
         IN  results' = [data |-> data, loading |-> FALSE, error |-> error,
                         view |-> shown.view, points |-> shown.points]
    /\ UNCHANGED << variant, open, value, home, alerted, location, searchItem,
                    scraped, items, filteredItems, rdbInit, crashed, concurrent,
                    cache, pc, q, key, ctxErr, getRes, searchRes, nItems, wpc,
                    outcome, mu, cpc, buf, errs, got, resp, calls, setLog, recvd,
                    post, formatted >>

InitClient ==
    /\ InitCommon
    /\ variant = "chan"
    /\ rdbInit = TRUE
    /\ concurrent = FALSE
    /\ q = [r \in Req |-> NoQuery]
    /\ post = NoPost
    /\ formatted = NotFormatted
    /\ searchItem = NoItem
    /\ items = <<>>

NextClient ==
    \/ \E box \in Box : OpenChange(box)
    \/ \E box \in Box : \E currentValue \in Selections(box) : Select(box, currentValue)
    \/ handleSubmit
    \/ fetchData

SpecClient == InitClient /\ [][NextClient]_vars

(***************************************************************************)
(* The head of scrape.Scrape on its own: getPostInfo on the link of a      *)
(* search item.                                                            *)
(***************************************************************************)
Scheme == << "h", "t", "t", "p", "s", ":", "/", "/" >>

RedditHost ==
    << "w", "w", "w", ".", "r", "e", "d", "d", "i", "t", ".", "c", "o", "m" >>

CommentsSegment == << "c", "o", "m", "m", "e", "n", "t", "s" >>

\* strings.Split(s, sep) for a non-empty sep
Split(s, sep) == split(s, sep)

\* getPostInfo(searchItem): postID, subreddit and err, or the panic of an
\* index or a slice bound out of range; && looks at its right operand only
\* when the left one holds
getPostInfo(item) ==
    LET Link == item.Link
        panic == [postID |-> <<>>, subreddit |-> <<>>, err |-> "panic"]
        notFormatted == [postID |-> <<>>, subreddit |-> <<>>, err |-> "url"]
    IN  IF Len(Link) < 8 THEN panic
        ELSE LET splitUrl == Split(SubSeq(Link, 9, Len(Link)), << "/" >>)
             IN  CASE splitUrl[1] # RedditHost -> notFormatted
                   [] Len(splitUrl) < 2 -> panic
                   [] splitUrl[2] # << "r" >> -> notFormatted
                   [] Len(splitUrl) < 4 -> panic
                   [] splitUrl[4] # CommentsSegment -> notFormatted
                   [] Len(splitUrl) < 5 -> panic
                   [] OTHER -> [postID |-> splitUrl[5], subreddit |-> splitUrl[3],
                                err |-> "nil"]

\* Scrape up to the error test after getPostInfo: godotenv.Load may fail;
\* a panic in the worker goroutine ends the process
ScrapePostInfo ==
    /\ ~crashed
    /\ scraped.err = "unset"
    /\ \/ /\ scraped' = [postID |-> <<>>, subreddit |-> <<>>, err |-> "env"]
          /\ UNCHANGED crashed
       \/ /\ scraped' = getPostInfo(searchItem)
          /\ crashed' = (scraped'.err = "panic")
    /\ UNCHANGED << variant, open, value, home, alerted, location, results,
                    searchItem, items, filteredItems, rdbInit, concurrent,
                    cache, pc, q, key, ctxErr, getRes, searchRes, nItems, wpc,
                    outcome, mu, cpc, buf, errs, got, resp, calls, setLog, recvd,
                    post, formatted >>

\* the links of the search items: what stands before the path, and a path
\* of up to MaxSegments segments
Prefixes == { Scheme, << "h", "t", "t", "p", ":", "/", "/" >>, <<>> }

\* the segments at place k of a path
SegmentChoices(k) ==
    CASE k = 1 -> { RedditHost, << "x" >> }
      [] k = 2 -> { << "r" >>, << "u" >> }
      [] k = 4 -> { CommentsSegment, << "w" >> }
      [] k = 5 -> { << "1" >> }
      [] OTHER -> { << "s" >> }

RECURSIVE Paths(_)
Paths(n) ==
    IF n = 0 THEN { <<>> }
    ELSE { Append(path, segment) :
             path \in Paths(n - 1), segment \in SegmentChoices(n) }

\* the segments of a path with "/" between them
RECURSIVE JoinPath(_)
JoinPath(path) ==
    IF path = <<>> THEN <<>>
    ELSE IF Len(path) = 1 THEN path[1]
    ELSE (path[1] \o << "/" >>) \o JoinPath(Tail(path))

Links ==
    { prefix \o JoinPath(path) :
        prefix \in Prefixes, path \in UNION { Paths(n) : n \in 0..MaxSegments } }

InitLink ==
    /\ InitCommon
    /\ variant = "chan"
    /\ rdbInit = TRUE
    /\ concurrent = FALSE
    /\ q = [r \in Req |-> NoQuery]
    /\ post = NoPost
    /\ formatted = NotFormatted
    /\ items = <<>>
    /\ searchItem \in { [Title |-> 1, Link |-> l] : l \in Links }

NextLink == ScrapePostInfo

SpecLink == InitLink /\ [][NextLink]_vars

(***************************************************************************)
(* The tail of search.Search on its own: filterSearchResults on the items  *)
(* of the response.                                                        *)
(***************************************************************************)
NoStupidQuestions ==
    << "N", "o", "S", "t", "u", "p", "i", "d", "Q", "u", "e", "s", "t", "i",
       "o", "n", "s" >>

RelayForReddit ==
    << "R", "e", "l", "a", "y", "F", "o", "r", "R", "e", "d", "d", "i", "t" >>

\* isRelevantResult without the exception for RelayForReddit
isRelevantResultNoException(item) == ~Contains(item.Link, NoStupidQuestions)

isRelevantResult(item) ==
    ~Contains(item.Link, NoStupidQuestions) \/ Contains(item.Link, RelayForReddit)

\* filterSearchResults(items, champion, opponent): the loop appends the
\* relevant items in the order of the input
filterSearchResults(its, champion, opponent) == SelectSeq(its, isRelevantResult)

\* filteredItems := filterSearchResults(searchResults.Items, q.Champion,
\* q.Opponent)
Filter ==
    /\ ~filteredItems.called
    /\ filteredItems' =
         [called |-> TRUE,
          Items |-> filterSearchResults(items, q[1].Champion, q[1].Opponent)]
    /\ UNCHANGED << variant, open, value, home, alerted, location, results,
                    searchItem, scraped, items, rdbInit, crashed, concurrent,
                    cache, pc, q, key, ctxErr, getRes, searchRes, nItems, wpc,
                    outcome, mu, cpc, buf, errs, got, resp, calls, setLog, recvd,
                    post, formatted >>

\* the links of the items: with neither name, with one of them, with both
FilterLinks ==
    { << "x" >>,
      << "x" >> \o NoStupidQuestions,
      RelayForReddit \o << "x" >>,
      (NoStupidQuestions \o << "/" >>) \o RelayForReddit }

\* the champion and opponent names of the query
FilterNames == { << "a" >>, << "b" >> }

\* the item lists of the search response; the title tells the items apart
ItemLists ==
    { [k \in DOMAIN links |-> [Title |-> k, Link |-> links[k]]] :
        links \in UNION { [1..n -> FilterLinks] : n \in 0..MaxFilterItems } }

InitFilter ==
    /\ InitCommon
    /\ variant = "chan"
    /\ rdbInit = TRUE
    /\ concurrent = FALSE
    /\ post = NoPost
    /\ formatted = NotFormatted
    /\ searchItem = NoItem
    /\ \E champion \in FilterNames, opponent \in FilterNames :
         q = [r \in Req |-> IF r = 1
                            THEN [Champion |-> champion, Opponent |-> opponent,
                                  Role |-> << "t" >>]
                            ELSE NoQuery]
    /\ items \in ItemLists

NextFilter == Filter

SpecFilter == InitFilter /\ [][NextFilter]_vars

(***************************************************************************)
(* Vocabulary of the properties.                                           *)
(***************************************************************************)
Done(r) == pc[r] = "done"

\* the request context ran into its deadline
Expired(r) == ctxErr[r] = "DeadlineExceeded"

\* every worker of request r has reported, and the deadline did not fire
Completed(r) ==
    /\ Done(r)
    /\ ~Expired(r)
    /\ nItems[r] >= 1
    /\ \A i \in 1..nItems[r] : wpc[r][i] = "done"

\* items that ended in a hard failure / a usable artifact / the sentinel
HardFailed(r) ==
    { i \in 1..nItems[r] : outcome[r][i].kind \in { "scrapeErr", "sumErr" } }

Usable(r) ==
    { i \in 1..nItems[r] :
        outcome[r][i].kind = "text" /\ outcome[r][i].text = Artifact(i) }

SoftFailed(r) ==
    { i \in 1..nItems[r] :
        outcome[r][i].kind = "text" /\ Contains(outcome[r][i].text, SentinelHyphen) }

\* request r made exactly one rdb.Set, of val under its own key
SetOnce(r, val) ==
    /\ Len(setLog[r]) = 1
    /\ setLog[r][1].key = Key(q[r])
    /\ setLog[r][1].value = val
    /\ setLog[r][1].ttl = TTLSeconds

\* the Search of request r returned no item (and no error)
ZeroItems(r) ==
    /\ Done(r)
    /\ ~Expired(r)
    /\ calls[r].search = 1
    /\ nItems[r] = 0
    /\ searchRes[r].err = "nil"

(***************************************************************************)
(* C1..C10                                                                 *)
(***************************************************************************)
\* C1: in the chan build, once the deadline has fired while workers are still
\* outstanding in the fan-in loop, the handler takes no further message,
\* makes no rdb.Set, and its return is the 408 reply.
C1_DeadlineMeansTimeout ==
    [][\A r \in Req :
         (variant = "chan" /\ pc[r] = "fanin" /\ CtxDone(r) /\ got[r] < nItems[r])
         => /\ got'[r] = got[r]
            /\ setLog'[r] = setLog[r]
            /\ pc'[r] = "done" =>
                 resp'[r] = << ErrorReply(StatusRequestTimeout,
                                 "Processing took too long and was terminated") >>
      ]_vars

\* C2: in the wg builds, a request one of whose workers skipped its item on
\* ctx.Done() writes nothing to the cache and gives no 200 reply: every value
\* a request writes after fan-out is built from the outcomes of all N items.
C2_NoShortAggregate ==
    \A r \in Req :
      (variant # "chan" /\ \E i \in 1..nItems[r] : outcome[r][i].kind = "skipped")
      => /\ \A k \in 1..Len(setLog[r]) : ~setLog[r][k].ok
         /\ \A k \in 1..Len(resp[r]) : resp[r][k].code # StatusOK

\* a worker skipped its item, the collector still delivered the shorter
\* aggregate, and the outer select took it although ctx.Done() was ready
C2_Witness ==
    \E r \in Req :
      /\ variant = "wgctx"
      /\ \E i \in 1..nItems[r] : outcome[r][i].kind = "skipped"
      /\ \E i \in 1..nItems[r] : outcome[r][i].kind = "text"
      /\ cpc[r] = "done"
      /\ Len(setLog[r]) = 1

\* C3: with K hard failures among N items (0 < K < N), artifacts for the
\* rest and no deadline, the reply is 206 with the N-K artifacts and K
\* reasons, and the text is Set under the request's key.
C3_PartialSuccessCached ==
    \A r \in Req :
      ( /\ Completed(r)
        /\ HardFailed(r) \cup Usable(r) = 1..nItems[r]
        /\ HardFailed(r) # {}
        /\ Usable(r) # {} )
      => \E text \in AdviceTexts(Usable(r)) :
           /\ Len(resp[r]) = 1
           /\ resp[r][1].code = StatusPartialContent
           /\ resp[r][1].advice = text
           /\ Len(resp[r][1].errors) = Cardinality(HardFailed(r))
           /\ SetOnce(r, text)

\* C4: with artifacts for all N >= 1 items and no deadline, the reply is 200
\* with the N artifacts, each followed by a blank line, and exactly that text
\* is Set under Champion+"v"+Opponent+"@"+Role.
C4_AllSucceedCached ==
    \A r \in Req :
      (Completed(r) /\ Usable(r) = 1..nItems[r])
      => \E text \in AdviceTexts(Usable(r)) :
           /\ resp[r] = << AdviceReply(StatusOK, text) >>
           /\ SetOnce(r, text)

\* C5: text carrying the sentinel "INVALID-INPUT" is never part of the advice
\* of a reply and never the value of a rdb.Set.
C5_SentinelNeverSurfaces ==
    \A r \in Req :
      /\ \A k \in 1..Len(resp[r]) : ~Contains(resp[r][k].advice, SentinelHyphen)
      /\ \A k \in 1..Len(setLog[r]) : ~Contains(setLog[r][k].value, SentinelHyphen)

\* C6: when every one of N >= 1 items ends in the sentinel and the deadline
\* does not fire, the reply is 200 with the placeholder.
C6_AllSoftGivesPlaceholder ==
    \A r \in Req :
      (Completed(r) /\ SoftFailed(r) = 1..nItems[r])
      => resp[r] = << AdviceReply(StatusOK, Placeholder) >>

\* C7: when all N workers have reported and no item gave an artifact (each
\* failed hard or soft), the placeholder is Set under the request's key and
\* returned with 200.
C7_EmptyArtifactSetGivesPlaceholder ==
    \A r \in Req :
      (Completed(r) /\ HardFailed(r) \cup SoftFailed(r) = 1..nItems[r])
      => /\ SetOnce(r, Placeholder)
         /\ resp[r] = << AdviceReply(StatusOK, Placeholder) >>

\* C8: a request whose Search returns zero items is answered 200 with the
\* placeholder, and (the store having accepted what it wrote and answering
\* the later Get) a later request with the same query is answered with the
\* same placeholder without calling Search.
C8_EmptySearchIdempotent ==
    \A r \in Req :
      (ZeroItems(r) /\ \A k \in 1..Len(setLog[r]) : setLog[r][k].ok)
      => /\ resp[r] = << AdviceReply(StatusOK, Placeholder) >>
         /\ \A r2 \in Req :
              (r2 > r /\ Done(r2) /\ q[r2] = q[r] /\ rdbInit
                 /\ getRes[r2].err # "error")
              => /\ resp[r2] = << AdviceReply(StatusOK, Placeholder) >>
                 /\ calls[r2].search = 0

\* what a request that did not go past the cache lookup has left untouched
NothingBeyondGet(r) ==
    /\ calls[r].search = 0
    /\ \A i \in Item : calls[r].scrape[i] = 0 /\ calls[r].summarize[i] = 0
    /\ \A i \in Item : wpc[r][i] = "none"
    /\ setLog[r] = <<>>

C12_EmptyFieldIsBadRequest ==
    \A r \in Req :
      (pc[r] # "idle" /\ Invalid(q[r]))
      => /\ Done(r)
         /\ resp[r] = << ErrorReply(StatusBadRequest, "Missing required parameters") >>
         /\ calls[r].get = 0
         /\ NothingBeyondGet(r)

\* C13: a request whose rdb.Set failed has been answered with the status
\* and advice of the write-back path it was on: 200 with the text it tried
\* to store (the placeholder where the wg builds found the sentinel in it).
C13_SetFailureNotEscalated ==
    \A r \in Req :
      (Done(r) /\ Len(setLog[r]) = 1 /\ ~setLog[r][1].ok)
      => LET val == setLog[r][1].value IN
         resp[r] = << AdviceReply(StatusOK,
                         IF variant # "chan" /\ Contains(val, SentinelHyphen)
                         THEN Placeholder ELSE val) >>

\* C14: two validated queries that differ in a field have different keys.
C14_KeyInjective ==
    \A r1, r2 \in Req :
      (pc[r1] = "get" /\ pc[r2] = "get" /\ q[r1] # q[r2])
      => key[r1] # key[r2]

\* C15: a hard failure of Scrape or Summarize for one item leaves the process
\* running.
C15_ItemFailureConfined ==
    \A r \in Req : \A i \in 1..nItems[r] :
      outcome[r][i].kind \in { "scrapeErr", "sumErr", "fatal" } => ~crashed

\* C16: a handler that has returned has written exactly one response, and one
\* that has not returned has written none.
C16_ExactlyOneResponse ==
    \A r \in Req : Len(resp[r]) = IF Done(r) THEN 1 ELSE 0

\* one request ended in the 408 reply and a later one in the 206 reply
C16_Witness ==
    \E r1, r2 \in Req :
      /\ r1 < r2
      /\ Done(r1) /\ resp[r1][1].code = StatusRequestTimeout
      /\ Done(r2) /\ resp[r2][1].code = StatusPartialContent

\* C17: a handler that has fanned out eventually returns (or the process has
\* exited), whether or not its workers ever report.
C17_StalledWorkerCannotBlock ==
    \A r \in Req :
      (pc[r] \in { "fanin", "select", "wait" }) ~> (Done(r) \/ crashed)

\* the workers that are inside a write to the buffer or the error list
Writing(r) == { i \in Item : wpc[r][i] \in { "appendErr", "writeRes" } }

\* C18: in the wg builds at most one worker is inside a write to the buffer
\* or the error list and it holds mu, and the buffer and the error list are
\* read (by the collector's send, by the handler of the wg build) only when
\* every worker has returned; in the chan build no worker writes to them.
C18_AccumulatorExclusive ==
    \A r \in Req :
      /\ Cardinality(Writing(r)) <= 1
      /\ \A i \in Writing(r) : mu[r] = i /\ variant # "chan"
      /\ cpc[r] \in { "send", "done" } => AllWorkersDone(r)
      /\ (variant = "wg" /\ Done(r) /\ searchRes[r].err = "nil")
           => AllWorkersDone(r)

\* one worker is writing its summary while another waits for the mutex
C18_Witness ==
    \E r \in Req : \E i, j \in 1..nItems[r] :
      /\ wpc[r][i] = "writeRes"
      /\ mu[r] = i
      /\ wpc[r][j] \in { "lockRes", "lockErr" }

\* C19: a request makes at most one rdb.Set, under the key of its own query;
\* no step removes an entry of the store, and a step that adds or changes
\* the entry of a key is the Set of a request whose query gives that key.
C19_OneSetOwnKey ==
    [][ /\ \A r \in Req :
             /\ Len(setLog'[r]) <= 1
             /\ \A j \in 1..Len(setLog'[r]) : setLog'[r][j].key = Key(q'[r])
        /\ DOMAIN cache \subseteq DOMAIN cache'
        /\ \A k \in DOMAIN cache' :
             (k \notin DOMAIN cache \/ cache'[k] # cache[k])
             => \E r \in Req : /\ Len(setLog'[r]) = Len(setLog[r]) + 1
                               /\ k = Key(q[r])
                               /\ \A r2 \in Req \ {r} : setLog'[r2] = setLog[r2]
      ]_vars

\* two requests with different queries have each written their entry
C19_Witness ==
    /\ Cardinality(DOMAIN cache) = 2
    /\ \A r \in Req : Len(setLog[r]) = 1 /\ setLog[r][1].ok

\* C20: a search that failed in transport, or that the API answered with an
\* error object, has returned a non-nil error, and the request has not
\* written the placeholder.
C20_FailedSearchIsError ==
    \A r \in Req :
      searchRes[r].cause \in { "transport", "apiError" }
      => /\ searchRes[r].err = "error"
         /\ \A k \in 1..Len(setLog[r]) : setLog[r][k].value # Placeholder

(***************************************************************************)
(* C21..C30                                                                *)
(***************************************************************************)
\* C21: once the request context is done, no step adds a summary to the
\* buffer or a failure reason to the error list of that request.
C21_NothingAfterCancellation ==
    [][\A r \in Req :
         CtxDone(r) => /\ buf'[r] = buf[r]
                       /\ errs'[r] = errs[r]
      ]_vars

\* how often item i occurs in the sequence of items s
Occurrences(s, i) == Cardinality({ k \in 1..Len(s) : s[k] = i })

\* the items of the failure reasons in errs[r], in order
ErrItems(r) == [k \in 1..Len(errs[r]) |-> errs[r][k].item]

\* C22: in the chan build the loop counter is the number of summaries plus
\* the number of errors received, every worker's message is received at most
\* once and only from a worker that has sent it, and a loop that ran to its
\* end has received exactly one message for each of the N items.
C22_OneMessagePerItem ==
    \A r \in Req :
      variant = "chan"
      => /\ got[r] = Len(recvd[r]) + Len(errs[r])
         /\ \A i \in Item :
              Occurrences(recvd[r], i) + Occurrences(ErrItems(r), i)
                = IF wpc[r][i] = "done" THEN 1 ELSE 0
         /\ (nItems[r] >= 1 /\ Len(setLog[r]) = 1)
              => /\ Len(recvd[r]) + Len(errs[r]) = nItems[r]
                 /\ AllWorkersDone(r)

\* the loop of a request with two items ended with one summary and one error
C22_Witness ==
    \E r \in Req :
      /\ variant = "chan"
      /\ Done(r)
      /\ nItems[r] = 2
      /\ Len(recvd[r]) = 1
      /\ Len(errs[r]) = 1
      /\ resp[r][1].code = StatusOK

\* C23: a request calls Search at most once, and Scrape and Summarize at most
\* once for each item.
C23_NoRetries ==
    \A r \in Req :
      /\ calls[r].search <= 1
      /\ \A i \in Item : calls[r].scrape[i] <= 1 /\ calls[r].summarize[i] <= 1

\* a finished request one of whose items failed in Scrape and another in
\* Summarize
C23_Witness ==
    \E r \in Req : \E i, j \in 1..nItems[r] :
      /\ Done(r)
      /\ AllWorkersDone(r)
      /\ outcome[r][i].kind = "scrapeErr" /\ calls[r].scrape[i] = 1
      /\ outcome[r][j].kind = "sumErr" /\ calls[r].summarize[j] = 1

\* C25: Summarize runs for an item only after the one Scrape of that item
\* has succeeded; after a failed Scrape Summarize is not called for the item
\* and what the worker reports is the scraping error.
C25_ScrapeThenSummarize ==
    \A r \in Req : \A i \in Item :
      /\ (wpc[r][i] = "summarize" \/ calls[r].summarize[i] > 0)
           => calls[r].scrape[i] = 1 /\ outcome[r][i].kind # "scrapeErr"
      /\ outcome[r][i].kind = "scrapeErr"
           => /\ calls[r].summarize[i] = 0
              /\ wpc[r][i] \in { ErrStep, "appendErr", "done" }
              /\ wpc[r][i] = "done"
                   => \E k \in 1..Len(errs[r]) :
                        errs[r][k] = [kind |-> "scraping", item |-> i]

\* one worker has reported its scraping error, another has been summarised
C25_Witness ==
    \E r \in Req : \E i, j \in 1..nItems[r] :
      /\ outcome[r][i].kind = "scrapeErr"
      /\ wpc[r][i] = "done"
      /\ calls[r].summarize[j] = 1
      /\ outcome[r][j].kind = "text"

\* C28: when the handler has returned, no worker of the request is blocked in
\* a send on resultChan or errorChan and its collector is not blocked in its
\* send (nobody receives from these channels any more).
C28_NoGoroutineLeftBlocked ==
    \A r \in Req :
      Done(r) => /\ \A i \in Item : wpc[r][i] \notin { "sendRes", "sendErr" }
                 /\ cpc[r] # "send"

\* C29: a request that stored V under its key and answered 200 with advice A
\* has A = V.
C29_RepliedIsStored ==
    \A r \in Req :
      ( /\ Done(r)
        /\ Len(setLog[r]) = 1
        /\ setLog[r][1].ok
        /\ resp[r][1].code = StatusOK )
      => resp[r][1].advice = setLog[r][1].value

\* the summaries of the items of order, each followed by a blank line
RECURSIVE JoinTexts(_, _)
JoinTexts(r, order) ==
    IF order = <<>> THEN <<>>
    ELSE (outcome[r][Head(order)].text \o BlankLine) \o JoinTexts(r, Tail(order))

\* the reply of request r carries text aggregated from its workers
AggregatedReply(r) ==
    /\ Done(r)
    /\ nItems[r] >= 1
    /\ resp[r][1].kind \in { "advice", "partial" }
    /\ resp[r][1].advice # Placeholder

\* C24: the buffer is the summaries in the order in which they were received
\* (chan) or written (wg builds), each followed by "\n\n", and an aggregated
\* reply carries exactly the buffer.
C24_AdviceInCompletionOrder ==
    \A r \in Req :
      /\ buf[r] = JoinTexts(r, recvd[r])
      /\ AggregatedReply(r) => resp[r][1].advice = buf[r]

\* two requests with two summarised items each: one answered with item 1
\* first, the other with item 2 first
C24_Witness ==
    \E r1, r2 \in Req :
      /\ recvd[r1] = << 1, 2 >>
      /\ recvd[r2] = << 2, 1 >>
      /\ AggregatedReply(r1) /\ resp[r1][1].code = StatusOK
      /\ AggregatedReply(r2) /\ resp[r2][1].code = StatusOK
      /\ resp[r2][1].advice = (Artifact(2) \o BlankLine) \o (Artifact(1) \o BlankLine)

\* C26: a request whose deadline has fired eventually returns (or the process
\* has exited), in whatever phase the deadline found it.
C26_DeadlineCoversEveryPhase ==
    \A r \in Req : Expired(r) ~> (Done(r) \/ crashed)

\* C27: a rdb.Set that the store accepts leaves its value under the key,
\* whatever another request stored there before; one that fails leaves the
\* store as it was.
C27_LastSetWins ==
    [][\A r \in Req :
         Len(setLog'[r]) > Len(setLog[r])
         => LET c == setLog'[r][Len(setLog'[r])] IN
            IF c.ok
            THEN c.key \in DOMAIN cache' /\ cache'[c.key] = c.value
            ELSE cache' = cache
      ]_vars

\* two overlapping requests for the same query both missed, both searched
\* and fanned out, both stored their (different) text; the store holds the
\* text of the request that arrived first, whose Set came last
C27_Witness ==
    /\ q[1] = q[2]
    /\ \A r \in { 1, 2 } :
         /\ getRes[r].err = "redis.Nil"
         /\ calls[r].search = 1
         /\ nItems[r] >= 1
         /\ calls[r].scrape[1] = 1
         /\ Len(setLog[r]) = 1
         /\ setLog[r][1].ok
         /\ setLog[r][1].key = Key(q[r])
    /\ setLog[1][1].value # setLog[2][1].value
    /\ cache[Key(q[1])] = setLog[1][1].value

\* the positions of the entries at indent level l
At(l) == { k \in 1..Len(formatted.entries) : formatted.entries[k].indent = l }

\* the comment of the post with the id of entry k
CommentOf(k) ==
    CHOOSE c \in Range(post.Comments) : c.id = formatted.entries[k].id

\* the positions of the entries between comment entry k and the next comment
\* entry
After(k) ==
    { j \in 1..Len(formatted.entries) :
        j > k /\ \A m \in At(1) : m > k => j < m }

\* the entries at the positions K are those of limit (or all) of the
\* comments cs, scores do not increase along them, and no comment left out
\* has a higher score than one that is in
TopOf(K, cs, limit) ==
    LET ids == { formatted.entries[k].id : k \in K } IN
    /\ Cardinality(K) = Min(Len(cs), limit)
    /\ Cardinality(ids) = Cardinality(K)
    /\ ids \subseteq { c.id : c \in Range(cs) }
    /\ \A k \in K : \E c \in Range(cs) :
         c.id = formatted.entries[k].id /\ c.Score = formatted.entries[k].Score
    /\ \A j, k \in K :
         j < k => formatted.entries[j].Score >= formatted.entries[k].Score
    /\ \A c \in Range(cs) :
         c.id \notin ids => \A k \in K : c.Score <= formatted.entries[k].Score

\* C30: what formatPostContent returns without an error starts with the
\* entry of the post, followed by the 5 (or all) comments of the post with
\* the highest scores in non-increasing order of score, each followed at once
\* by the 2 (or all) of its own replies with the highest scores in
\* non-increasing order, and nothing else.
C30_TopCommentsThenReplies ==
    formatted.err = "nil"
    => /\ Len(formatted.entries) >= 1
       /\ At(0) = { 1 }
       /\ formatted.entries[1].id = post.id
       /\ \A k \in 1..Len(formatted.entries) : formatted.entries[k].indent \in 0..2
       /\ TopOf(At(1), post.Comments, TopComments)
       /\ \A k \in At(1) :
            /\ After(k) \subseteq At(2)
            /\ TopOf(After(k), CommentOf(k).Replies, TopReplies)
       /\ \A j \in At(2) : \E k \in At(1) : j \in After(k)

\* six comments of which the one left out has a lower score than one that
\* is in, and a comment with three replies, two of them written right after
\* it, the one left out with a lower score
C30_Witness ==
    /\ formatted.err = "nil"
    /\ Len(post.Comments) = MaxComments
    /\ Cardinality(At(1)) = TopComments
    /\ \E c \in Range(post.Comments) : \E k \in At(1) :
         /\ \A j \in At(1) : formatted.entries[j].id # c.id
         /\ c.Score < formatted.entries[k].Score
    /\ \E k \in At(1) :
         /\ Len(CommentOf(k).Replies) = MaxReplies
         /\ Cardinality(After(k)) = TopReplies
         /\ \E rp \in Range(CommentOf(k).Replies) : \E j \in After(k) :
              rp.Score < formatted.entries[j].Score

(***************************************************************************)
(* C31..C36                                                                *)
(***************************************************************************)
\* the comments of the post that getTopComments handed out
SelectedComments ==
    { c \in Range(post.Comments) : c.id \in formatted.topComments }

\* the replies to comments of the post that getTopComments handed out
SelectedReplies ==
    UNION { { rp \in Range(c.Replies) : rp.id \in formatted.topReplies } :
            c \in Range(post.Comments) }

\* C31: formatPostContent returns an error, and with it the empty string,
\* exactly when the post or one of the comments or replies picked by the
\* top-5 and top-2 truncation has an empty permalink; otherwise there is no
\* error, so an empty permalink on a comment that was not picked causes none.
C31_ErrorIffSelectedEmptyPermalink ==
    formatted.err # "unset"
    => /\ formatted.err \in { "nil", "error" }
       /\ formatted.err = "error"
            <=> \/ post.Permalink = <<>>
                \/ \E c \in SelectedComments \cup SelectedReplies : c.Permalink = <<>>
       /\ formatted.err = "error" => formatted.entries = <<>>
       /\ formatted.err = "nil" => formatted.entries # <<>>

\* six comments of which the one with the empty permalink has the lowest
\* score and is left out by the truncation: no error
C31_Witness ==
    /\ formatted.err = "nil"
    /\ Len(post.Comments) = MaxComments
    /\ Cardinality(formatted.topComments) = TopComments
    /\ \E c \in Range(post.Comments) :
         /\ c.Permalink = <<>>
         /\ c.id \notin formatted.topComments

\* the advice text the Results page holds
Advice == results.data[1].advice

\* C32: from every non-empty advice text the server sends with OK, the
\* aggregate of the artifacts of N >= 1 items or the placeholder, the Results
\* page derives at least one point, and from the aggregate of N artifacts
\* exactly N points.
C32_EveryAdviceGivesPoints ==
    results.view = "advice" /\ Advice # <<>>
    => /\ Len(results.points) >= 1
       /\ \A S \in (SUBSET Item) \ { {} } :
            Advice \in AdviceTexts(S) => Len(results.points) = Cardinality(S)

\* C33: the value a Combobox shows as selected is the last value it passed
\* to its parent through onSelect; a Combobox that shows no selection has a
\* parent that holds none.
C33_ComboboxShowsWhatParentHolds ==
    \A box \in Box : value[box] = home[box]

\* champion, opponent and role are chosen and the champions differ
Submittable ==
    /\ home.champion # "" /\ home.opponent # "" /\ home.role # ""
    /\ home.champion # home.opponent

\* C34: the page changes only by going from the Home page to the Results
\* page with champion, opponent and role all chosen and champion different
\* from opponent; in every other state of the Home page a step, handleSubmit
\* included, leaves the page where it is.
C34_NavigatesOnlyWhenSubmittable ==
    [][ /\ location' # location
           => /\ OnHome /\ Submittable
              /\ location' = [pathname |-> "/results", state |-> home]
        /\ ~Submittable => location' = location
      ]_vars

\* handleSubmit has gone to the Results page with what was chosen, its last
\* alert names the two champions
C34_Witness ==
    /\ location.pathname = "/results"
    /\ location.state = home
    /\ Submittable
    /\ alerted = << home.champion, home.opponent >>

\* the link of the search item, and its path cut at the "/"
TheLink == searchItem.Link

Segments == split(SubSeq(TheLink, Len(Scheme) + 1, Len(TheLink)), << "/" >>)

\* https://www.reddit.com/r/<subreddit>/comments/<postID>/...
RedditPostLink ==
    /\ Len(TheLink) >= Len(Scheme)
    /\ SubSeq(TheLink, 1, Len(Scheme)) = Scheme
    /\ Len(Segments) >= 5
    /\ Segments[1] = RedditHost
    /\ Segments[2] = << "r" >>
    /\ Segments[4] = CommentsSegment

\* C35: for every link getPostInfo returns the post id and the subreddit of
\* a link of the form https://www.reddit.com/r/<subreddit>/comments/<postID>,
\* or an error; a link of fewer than 8 characters or of fewer than 5
\* segments gives the error, which Scrape returns to the worker, and nothing
\* ends the process.
C35_PostInfoOrError ==
    scraped.err \notin { "unset", "env" }
    => /\ scraped.err \in { "nil", "url" }
       /\ ~crashed
       /\ RedditPostLink
            => /\ scraped.err = "nil"
               /\ scraped.postID = Segments[5]
               /\ scraped.subreddit = Segments[3]
       /\ Len(TheLink) < 8 \/ Len(Segments) < 5 => scraped.err = "url"

\* the strictly increasing maps from the places of out to those of in
Embeddings(out, all) ==
    { f \in [1..Len(out) -> 1..Len(all)] :
        \A j, k \in 1..Len(out) : j < k => f[j] < f[k] }

\* C36: what filterSearchResults returns is a subsequence of its input in
\* the order of the input, holding an item exactly when its link does not
\* contain "NoStupidQuestions" or contains "RelayForReddit", whatever the
\* champion and the opponent are.
C36_FilterIsOrderedSubsequence ==
    filteredItems.called
    => LET out == filteredItems.Items IN
       /\ \E f \in Embeddings(out, items) :
            \A k \in 1..Len(out) : out[k] = items[f[k]]
       /\ \A k \in 1..Len(items) :
            items[k] \in Range(out)
              <=> \/ ~Contains(items[k].Link, NoStupidQuestions)
                  \/ Contains(items[k].Link, RelayForReddit)
       /\ \A champion \in FilterNames, opponent \in FilterNames :
            filterSearchResults(items, champion, opponent) = out

\* three items: the first names NoStupidQuestions only and is dropped, the
\* second names both and is kept, the third names neither and is kept after
\* it
C36_Witness ==
    /\ filteredItems.called
    /\ Len(items) = 3
    /\ Contains(items[1].Link, NoStupidQuestions)
    /\ ~Contains(items[1].Link, RelayForReddit)
    /\ Contains(items[2].Link, NoStupidQuestions)
    /\ Contains(items[2].Link, RelayForReddit)
    /\ ~Contains(items[3].Link, NoStupidQuestions)
    /\ filteredItems.Items = << items[2], items[3] >>

====
